---- MODULE Spec2Model ----
(***************************************************************************)
(* LetterboxdWrapped: the ingestion pipeline of build_database.py and the  *)
(* queries of general_analysis.py and top5_analysis.py.                    *)
(*                                                                         *)
(* The store is the SQLite file data/movies.db with its four tables.  The  *)
(* two user operations are the options of the command-line front end:      *)
(* option 1 runs build(), option 2 runs diary() when the file exists.  The *)
(* analyses read the committed store through a connection of their own;    *)
(* what they return is kept in `report`.                                   *)
(*                                                                         *)
(* Text is modelled as a sequence of one-character strings, so that        *)
(* str.strip(), float() and the comparison of titles are computed and not  *)
(* assumed.  A nullable value is <<>> (None / NULL) or <<v>>.              *)
(*                                                                         *)
(* One action is one iteration of a row loop, with everything it writes.   *)
(* The source files exist and are read row by row as they are processed;   *)
(* the metadata service is free in its answers, except under SpecRebuild   *)
(* and SpecWrapped, where it repeats them.  Any statement that writes may  *)
(* fail for reasons of the storage itself.                                 *)
(***************************************************************************)
EXTENDS Integers, Sequences, FiniteSets, TLC

VARIABLES
    files,      \* the paths that exist on disk
    db,         \* committed content of data/movies.db
    conn,       \* content as seen through the open connection (uncommitted)
    pc,         \* "idle" | "build" | "diary"
    rows,       \* the rows of the source file processed so far in this run
    tmdb,       \* the metadata service's answers
    outcome,    \* how the last operation ended
    ops,        \* number of operations started
    world,      \* the ratings source, when it is held fixed between runs
    report      \* what the last analysis returned

vars == <<files, db, conn, pc, rows, tmdb, outcome, ops, world, report>>

---------------------------------------------------------------------------
(* Bounds of the model *)

MaxRows == 2
MaxOps == 3

---------------------------------------------------------------------------
(* Nullable values *)

None == <<>>
Some(v) == <<v>>
Val(o) == o[1]

---------------------------------------------------------------------------
(* Text *)

Whitespace == {" ", "\t"}
Digits == {"0", "1", "2", "3", "4", "5", "6", "7", "8", "9"}

DigitVal(c) ==
    CASE c = "0" -> 0 [] c = "1" -> 1 [] c = "2" -> 2 [] c = "3" -> 3
      [] c = "4" -> 4 [] c = "5" -> 5 [] c = "6" -> 6 [] c = "7" -> 7
      [] c = "8" -> 8 [] c = "9" -> 9

RECURSIVE LStrip(_)
LStrip(s) ==
    IF s # <<>> /\ s[1] \in Whitespace THEN LStrip(Tail(s)) ELSE s

RECURSIVE RStrip(_)
RStrip(s) ==
    IF s # <<>> /\ s[Len(s)] \in Whitespace
    THEN RStrip(SubSeq(s, 1, Len(s) - 1))
    ELSE s

\* str.strip()
Strip(s) == RStrip(LStrip(s))

\* str.lower() on the letters the rewatch tokens use
LowerChar(c) ==
    CASE c = "Y" -> "y" [] c = "E" -> "e" [] c = "S" -> "s" [] c = "T" -> "t"
      [] c = "R" -> "r" [] c = "U" -> "u" [] c = "N" -> "n" [] c = "O" -> "o"
      [] c = "A" -> "a" [] c = "B" -> "b"
      [] OTHER -> c

Lower(s) == [k \in 1..Len(s) |-> LowerChar(s[k])]

AllDigits(s) == \A k \in 1..Len(s) : s[k] \in Digits

RECURSIVE DigitsValue(_)
DigitsValue(s) ==
    IF s = <<>> THEN 0
    ELSE 10 * DigitsValue(SubSeq(s, 1, Len(s) - 1)) + DigitVal(s[Len(s)])

Unsigned(s) == IF s # <<>> /\ s[1] \in {"+", "-"} THEN Tail(s) ELSE s
Sign(s) == IF s # <<>> /\ s[1] = "-" THEN -1 ELSE 1

\* int(s): surrounding whitespace, an optional sign, decimal digits.
\* None stands for ValueError.
ParseInt(s) ==
    LET t == Strip(s)
        u == Unsigned(t)
    IN  IF u # <<>> /\ AllDigits(u) THEN Some(Sign(t) * DigitsValue(u)) ELSE None

DotAt(s) == {k \in 1..Len(s) : s[k] = "."}

RECURSIVE DropZeros(_)
DropZeros(s) ==
    IF s # <<>> /\ s[Len(s)] = "0" THEN DropZeros(SubSeq(s, 1, Len(s) - 1)) ELSE s

\* float(s) for plain decimal literals: surrounding whitespace, an optional
\* sign, digits with at most one point and at least one digit.  The value
\* is <<m, e>>, meaning m / 10^e with trailing zeros of the fraction
\* dropped, so that "4.5" and "4.50" are the same number.  None stands for
\* ValueError.
ParseFloat(s) ==
    LET t == Strip(s)
        u == Unsigned(t)
        dots == DotAt(u)
    IN  IF dots = {}
        THEN IF u # <<>> /\ AllDigits(u)
             THEN Some(<<Sign(t) * DigitsValue(u), 0>>)
             ELSE None
        ELSE IF Cardinality(dots) > 1 THEN None
        ELSE LET d == CHOOSE k \in dots : TRUE
                 ip == SubSeq(u, 1, d - 1)
                 fp == SubSeq(u, d + 1, Len(u))
                 fz == DropZeros(fp)
             IN  IF AllDigits(ip) /\ AllDigits(fp) /\ Len(ip) + Len(fp) > 0
                 THEN Some(<<Sign(t) * DigitsValue(ip \o fz), Len(fz)>>)
                 ELSE None

---------------------------------------------------------------------------
(* The store: the tables of create_tables *)

DB_PATH == "data/movies.db"

\* The paths build() removes before it connects.
BuildRemoves == {"movies.db", "movies.db-wal", "movies.db-shm"}

\* A database file without tables (what sqlite3.connect creates).
EmptyDb ==
    [schema |-> FALSE, movie |-> <<>>, person |-> <<>>,
     movie_cast |-> {}, diary |-> <<>>]

\* CREATE TABLE IF NOT EXISTS: existing tables and their rows are kept.
create_tables(d) == [d EXCEPT !.schema = TRUE]

\* The movie rows holding tmdb_id t (UNIQUE: at most one).
MovieRowsOfTmdb(movie, t) == {i \in DOMAIN movie : movie[i].tmdb_id = t}

\* An upsert whose conflict target is the title instead of tmdb_id.
insert_or_update_by_title(movie, new) ==
    IF \A i \in DOMAIN movie : movie[i].title # new.title
    THEN Append(movie, new)
    ELSE [i \in DOMAIN movie |->
            IF movie[i].title = new.title THEN new ELSE movie[i]]

\* An upsert whose DO UPDATE sets the rating only.
insert_or_update_rating(movie, new) ==
    IF \A i \in DOMAIN movie : movie[i].tmdb_id # new.tmdb_id
    THEN Append(movie, new)
    ELSE [i \in DOMAIN movie |->
            IF movie[i].tmdb_id = new.tmdb_id
            THEN [movie[i] EXCEPT !.rating = new.rating]
            ELSE movie[i]]

\* INSERT ... with no ON CONFLICT clause: always a new row.
insert_movie_blind(movie, new) == Append(movie, new)

\* INSERT ... ON CONFLICT(tmdb_id) DO UPDATE SET title, director, year,
\* length_min, rating.  A new row takes the next rowid; an existing row
\* keeps its id.
insert_or_update_movie(movie, new) ==
    IF MovieRowsOfTmdb(movie, new.tmdb_id) = {}
    THEN Append(movie, new)
    ELSE [i \in DOMAIN movie |->
            IF movie[i].tmdb_id = new.tmdb_id THEN new ELSE movie[i]]

\* SELECT id FROM movie WHERE tmdb_id = ?  (first row)
MovieIdOfTmdb(movie, t) ==
    CHOOSE i \in MovieRowsOfTmdb(movie, t) :
        \A j \in MovieRowsOfTmdb(movie, t) : i <= j

\* get_or_create_person: the table after the call.
PersonAfter(person, name) ==
    IF \E i \in DOMAIN person : person[i] = name
    THEN person
    ELSE Append(person, name)

\* get_or_create_person: the id it returns.
get_or_create_person(person, name) ==
    CHOOSE i \in DOMAIN PersonAfter(person, name) :
        PersonAfter(person, name)[i] = name

\* Number of cast links kept per movie.
TopCast == 10

\* cast_names_in_order[:11]
TruncatedOffByOne(names) ==
    SubSeq(names, 1, IF Len(names) < TopCast + 1 THEN Len(names) ELSE TopCast + 1)

\* cast_names_in_order[:10]
Truncated(names) == SubSeq(names, 1, IF Len(names) < TopCast THEN Len(names) ELSE TopCast)

\* The insert loop of replace_movie_cast from position k on.  ok = FALSE
\* when an INSERT hits the primary key (movie_id, person_id): IntegrityError.
RECURSIVE InsertCast(_, _, _, _, _)
InsertCast(person, links, movie_id, names, k) ==
    IF k > Len(names)
    THEN [ok |-> TRUE, person |-> person, movie_cast |-> links]
    ELSE LET p2 == PersonAfter(person, names[k])
             pid == get_or_create_person(person, names[k])
         IN  IF \E l \in links : l.movie_id = movie_id /\ l.person_id = pid
             THEN [ok |-> FALSE, person |-> p2, movie_cast |-> links]
             ELSE InsertCast(p2,
                             links \cup {[movie_id |-> movie_id, person_id |-> pid,
                                          billing_order |-> k]},
                             movie_id, names, k + 1)

\* DELETE FROM movie_cast, with no WHERE clause.
DeleteEveryCast(links, movie_id) == {}

\* DELETE FROM movie_cast WHERE movie_id = ?
DeleteCast(links, movie_id) == {l \in links : l.movie_id # movie_id}

\* replace_movie_cast on the working content c.
replace_movie_cast(c, movie_id, names) ==
    InsertCast(c.person, DeleteCast(c.movie_cast, movie_id), movie_id,
               Truncated(names), 1)

---------------------------------------------------------------------------
(* The ratings source: rows of ratings.csv after the header *)

RatingsRow(title, rating) == << <<>>, title, <<>>, <<>>, rating >>

T_A == <<"A">>
T_B == <<"B">>

\* Well-formed rows, a row of four fields, a blank title, a rating that is
\* no number.
RatingsPool ==
    { RatingsRow(<<"A">>, <<"4", ".", "5">>),
      RatingsRow(<<" ", "B", " ">>, <<"3">>),
      << <<>>, <<"A">>, <<>>, <<"4">> >>,
      RatingsRow(<<" ">>, <<"4", ".", "5">>),
      RatingsRow(<<"B">>, <<"n", "/", "a">>) }

RECURSIVE SeqsUpTo(_, _)
SeqsUpTo(S, n) ==
    IF n = 0 THEN {<<>>}
    ELSE LET shorter == SeqsUpTo(S, n - 1)
         IN  shorter \cup {Append(q, x) : q \in shorter, x \in S}

RatingsSources == SeqsUpTo(RatingsPool, MaxRows)

\* The end-to-end example: a good row, a short row, a rating that is no number.
ExampleSource ==
    << RatingsRow(<<"A">>, <<"4", ".", "5">>),
       << <<>>, <<"A">>, <<>>, <<"4">> >>,
       RatingsRow(<<"B">>, <<"n", "/", "a">>) >>

\* The sanity checks without the try around float().
RowWellFormedAnyRating(row) ==
    /\ Len(row) >= 5
    /\ Strip(row[2]) # <<>>

\* The sanity checks of process_csv on one row: at least five columns, a
\* title that is not blank, a rating float() accepts.
RowWellFormed(row) ==
    /\ Len(row) >= 5
    /\ Strip(row[2]) # <<>>
    /\ ParseFloat(Strip(row[5])) # None

RowTitle(row) == Strip(row[2])
RowRating(row) == ParseFloat(Strip(row[5]))

---------------------------------------------------------------------------
(* The metadata service *)

Titles == {T_A, T_B}
TmdbIds == {1, 2}

Crew(job, name) == [job |-> job, name |-> name]

BigCast ==
    << Some("n1"), Some("n2"), Some("n3"), Some("n4"), Some("n5"), Some("n6"),
       Some("n7"), Some("n8"), Some("n9"), Some("n10"), Some("n11"), Some("n1") >>

\* Responses of the details+credits request.  Each carries the service's
\* own title of the film, written in lower case here.
\*   full: two directors, a cast entry without a name and one with an empty name
\*   bare: no release date, no runtime, no credits
\*   big:  a release date that is no year, a director without a name, twelve
\*         cast entries of which the twelfth repeats the first
\*   dup:  the same name twice among the first ten cast entries
\*   pair: a second film by the director and with the first actor of `full`
\*   solo: a film by another director, no release date, runtime or cast
Details(key) ==
    CASE key = "full" ->
           [title |-> <<"a">>, release_date |-> Some(<<"1", "9", "9", "9", "-", "0", "3", "-", "3", "1">>),
            runtime |-> Some(136),
            crew |-> << Crew("Writer", Some("W")), Crew("Director", Some("X")),
                        Crew("Director", Some("Y")) >>,
            cast |-> << Some("a"), Some(""), None, Some("b") >>]
      [] key = "bare" ->
           [title |-> <<"b">>, release_date |-> None, runtime |-> None, crew |-> <<>>, cast |-> <<>>]
      [] key = "big" ->
           [title |-> <<"a">>, release_date |-> Some(<<"1", "9", "x", "9">>),
            runtime |-> Some(90),
            crew |-> << Crew("Director", None), Crew("Director", Some("X")) >>,
            cast |-> BigCast]
      [] key = "dup" ->
           [title |-> <<"b">>, release_date |-> Some(<<"2", "0", "0", "1">>),
            runtime |-> Some(100),
            crew |-> << Crew("Director", Some("Y")) >>,
            cast |-> << Some("b"), Some("a"), Some("b") >>]
      [] key = "pair" ->
           [title |-> <<"b">>, release_date |-> Some(<<"2", "0", "0", "1">>),
            runtime |-> Some(100),
            crew |-> << Crew("Director", Some("X")) >>,
            cast |-> << Some("a") >>]
      [] key = "solo" ->
           [title |-> <<"b">>, release_date |-> None, runtime |-> None,
            crew |-> << Crew("Director", Some("Y")) >>, cast |-> <<>>]

DetailKeys == {"full", "bare", "big", "dup", "pair", "solo"}

\* The responses the service may give for each id: the first movie's cast
\* changes between a short list and a long one, the second movie has no
\* credits or a cast that repeats a name.  In the world the analyses are
\* run on, the second movie shares the first one's director and actor, or
\* has a director of its own.
DetailsOf(t) ==
    IF t = 1 THEN {"full", "big"}
    ELSE IF world.wrapped THEN {"pair", "solo"} ELSE {"bare", "dup"}

\* tmdb_search_movie: "error" (the request raises), "empty" (no result), or
\* the id of the first result.
SearchOutcomes ==
    {[kind |-> "error", id |-> 0], [kind |-> "empty", id |-> 0]}
        \cup {[kind |-> "found", id |-> t] : t \in TmdbIds}

Unasked == [kind |-> "unasked", id |-> 0]

NoAnswers ==
    [search |-> [t \in Titles |-> Unasked], details |-> [t \in TmdbIds |-> "unasked"]]

\* year: int(release_date[:4]) when the date has four characters, else None
YearOf(d) ==
    LET release_date == IF d.release_date = None THEN <<>> ELSE Val(d.release_date)
    IN  IF Len(release_date) >= 4 THEN ParseInt(SubSeq(release_date, 1, 4)) ELSE None

\* director_name: the name of the first crew member whose job is "Director"
DirectorOf(d) ==
    LET hits == {k \in DOMAIN d.crew : d.crew[k].job = "Director"}
    IN  IF hits = {} THEN None
        ELSE d.crew[CHOOSE k \in hits : \A j \in hits : k <= j].name

\* top_cast_names: [c.get("name") for c in cast_list if c.get("name")]
RECURSIVE CastNames(_)
CastNames(cast) ==
    IF cast = <<>> THEN <<>>
    ELSE IF Head(cast) # None /\ Val(Head(cast)) # ""
         THEN <<Val(Head(cast))>> \o CastNames(Tail(cast))
         ELSE CastNames(Tail(cast))

\* The row process_csv hands to insert_or_update_movie: the title is the
\* source's, the rest comes from the details.
MovieRow(row, tmdb_id, d) ==
    [tmdb_id |-> tmdb_id, title |-> RowTitle(row), director |-> DirectorOf(d),
     year |-> YearOf(d), length_min |-> d.runtime, rating |-> RowRating(row)]

\* The write of one row: upsert the movie, then replace its cast.
WriteRow(c, row, tmdb_id, d) ==
    LET movie2 == insert_or_update_movie(c.movie, MovieRow(row, tmdb_id, d))
        movie_id == MovieIdOfTmdb(movie2, tmdb_id)
        r == replace_movie_cast([c EXCEPT !.movie = movie2], movie_id, CastNames(d.cast))
    IN  [ok |-> r.ok, movie_id |-> movie_id,
         content |-> [c EXCEPT !.movie = movie2, !.person = r.person,
                                !.movie_cast = r.movie_cast]]

---------------------------------------------------------------------------
(* The diary source: rows of diary.csv after the header *)

DiaryRow(title, rewatch, watched) ==
    << <<>>, title, <<>>, <<>>, <<>>, rewatch, <<>>, watched >>

Jan05 == <<"2", "0", "2", "4", "-", "0", "1", "-", "0", "5">>
Jan31 == <<"2", "0", "2", "4", "-", "0", "1", "-", "3", "1">>
Feb01 == <<"2", "0", "2", "4", "-", "0", "2", "-", "0", "1">>

\* A first watch, a rewatch with padded title, another title, a title that
\* differs in case only, a row without watch date, a row of seven fields.
DiaryPool ==
    { DiaryRow(<<"A">>, <<>>, Jan05),
      DiaryRow(<<" ", "A">>, <<"Y", "e", "s">>, Jan31),
      DiaryRow(<<"B">>, <<"n", "o">>, Feb01),
      DiaryRow(<<"a">>, <<"y">>, Jan05),
      DiaryRow(<<"A">>, <<>>, <<" ">>),
      << <<>>, <<"A">>, <<>>, <<>>, <<>>, <<>>, Jan05 >> }

Jan15of23 == <<"2", "0", "2", "3", "-", "0", "1", "-", "1", "5">>
Slashed == <<"5", "/", "1", "/", "2", "4">>

\* The diary the analyses are run on: two January watches of A, the second
\* a rewatch; B in February and in January of the year before; a watch date
\* written day/month/year; a row without watch date.
DatedPool ==
    { DiaryRow(<<"A">>, <<>>, Jan05),
      DiaryRow(<<"A">>, <<"Y", "e", "s">>, Jan31),
      DiaryRow(<<"B">>, <<>>, Feb01),
      DiaryRow(<<"B">>, <<>>, Jan15of23),
      DiaryRow(<<"A">>, <<>>, Slashed),
      DiaryRow(<<"B">>, <<"Y", "e", "s">>, <<>>) }

\* The checks without the one on the watch date.
DiaryRowWellFormedAnyDate(row) ==
    /\ Len(row) >= 8
    /\ Strip(row[2]) # <<>>

\* The checks of diary() on one row before it touches the store.
DiaryRowWellFormed(row) ==
    /\ Len(row) >= 8
    /\ Strip(row[2]) # <<>>
    /\ Strip(row[8]) # <<>>

TruthyTokens == { <<"y", "e", "s">>, <<"t", "r", "u", "e">>, <<"1">>, <<"y">> }

\* rewatch = 1 if r in ("yes", "true", "1", "y") else 0
RewatchOf(row) == IF Lower(Strip(row[6])) \in TruthyTokens THEN 1 ELSE 0

\* A SELECT without the WHERE clause: every movie.
select_any_movie(movie, title) == IF movie = <<>> THEN {1} ELSE DOMAIN movie

\* The ids SELECT id FROM movie WHERE title = ? returns.
select_movie_by_title(movie, title) == {i \in DOMAIN movie : movie[i].title = title}

\* The row diary() inserts.
WatchEvent(movie_id, row) ==
    [movie_id |-> movie_id, watched_date |-> Strip(row[8]), rewatch |-> RewatchOf(row)]

---------------------------------------------------------------------------
(* Numbers of the analyses *)

RECURSIVE Pow10(_)
Pow10(n) == IF n = 0 THEN 1 ELSE 10 * Pow10(n - 1)

\* A stored rating <<m, e>> as the fraction m / 10^e.
Frac(r) == [num |-> r[1], den |-> Pow10(r[2])]

FracLess(x, y) == x.num * y.den < y.num * x.den
FracEq(x, y) == x.num * y.den = y.num * x.den

\* The sum of two ratings, at the longer of their two scales.
RatingAdd(a, b) ==
    LET e == IF a[2] < b[2] THEN b[2] ELSE a[2]
    IN  <<a[1] * Pow10(e - a[2]) + b[1] * Pow10(e - b[2]), e>>

\* The values f takes on S that are not NULL.
NonNull(f, S) == {x \in S : f[x] # None}

RECURSIVE Total(_, _)
Total(f, S) ==
    IF S = {} THEN 0
    ELSE LET x == CHOOSE y \in S : TRUE
         IN  Val(f[x]) + Total(f, S \ {x})

RECURSIVE RatingTotal(_, _)
RatingTotal(f, S) ==
    IF S = {} THEN <<0, 0>>
    ELSE LET x == CHOOSE y \in S : TRUE
         IN  RatingAdd(Val(f[x]), RatingTotal(f, S \ {x}))

\* SUM(f) over the rows S: NULLs are left out, and the sum of no value is NULL.
SqlSum(f, S) ==
    IF NonNull(f, S) = {} THEN None ELSE Some(Total(f, NonNull(f, S)))

\* AVG(f) over the rows S: the mean of the values that are not NULL.
SqlAvg(f, S) ==
    IF NonNull(f, S) = {} THEN None
    ELSE LET t == Frac(RatingTotal(f, NonNull(f, S)))
         IN  Some([num |-> t.num, den |-> t.den * Cardinality(NonNull(f, S))])

\* if x is None: x = 0   /   x or 0
OrZero(o) == IF o = None THEN 0 ELSE Val(o)

\* ORDER BY: the elements of S as a sequence; before[y, x] says that y comes
\* before x, a strict total order on S.
OrderedBy(S, before) ==
    [i \in 1..Cardinality(S) |->
        CHOOSE x \in S : Cardinality({y \in S : before[y, x]}) = i - 1]

\* LIMIT n
Limit(q, n) == SubSeq(q, 1, IF Len(q) < n THEN Len(q) ELSE n)

\* SQL does not say in which order rows with equal sort keys come out: the
\* engine may keep the order of the groups or reverse it.
TieOrders == {"kept", "reversed"}

Earlier(tie, a, b) == IF tie = "kept" THEN a < b ELSE a > b

\* Code points of the characters of the watch dates.
Code(ch) ==
    CASE ch = " " -> 32 [] ch = "-" -> 45 [] ch = "/" -> 47
      [] ch \in Digits -> 48 + DigitVal(ch)

\* Text ordered as SQLite orders it (BINARY collation).
RECURSIVE TextLess(_, _)
TextLess(a, b) ==
    IF b = <<>> THEN FALSE
    ELSE IF a = <<>> THEN TRUE
    ELSE IF a[1] # b[1] THEN Code(a[1]) < Code(b[1])
    ELSE TextLess(Tail(a), Tail(b))

---------------------------------------------------------------------------
(* general_analysis.py *)

\* FROM diary d JOIN movie m ON d.movie_id = m.id: the diary rows that have
\* a movie, and the movie of each.
Joined(c) == {k \in DOMAIN c.diary : c.diary[k].movie_id \in DOMAIN c.movie}
MovieOf(c, k) == c.movie[c.diary[k].movie_id]

get_movie_count(c) == Len(c.movie)

get_director_count(c) ==
    Cardinality({c.movie[i].director : i \in {j \in DOMAIN c.movie : c.movie[j].director # None}})

\* SELECT movie_id, COUNT(*) FROM diary GROUP BY movie_id
WatchCount(c, m) == Cardinality({k \in DOMAIN c.diary : c.diary[k].movie_id = m})

\* A watched total that counts every watched movie once.
watched_once(c) ==
    LET seen == {m \in DOMAIN c.movie : WatchCount(c, m) > 0}
    IN  OrZero(SqlSum([m \in seen |-> c.movie[m].length_min], seen))

\* SUM(m.length_min * d.watch_count) over the movies that have diary rows.
watched_minutes(c) ==
    LET seen == {m \in DOMAIN c.movie : WatchCount(c, m) > 0}
        product == [m \in seen |->
                      IF c.movie[m].length_min = None THEN None
                      ELSE Some(Val(c.movie[m].length_min) * WatchCount(c, m))]
    IN  OrZero(SqlSum(product, seen))

\* SELECT SUM(length_min) FROM movie
library_minutes(c) ==
    OrZero(SqlSum([m \in DOMAIN c.movie |-> c.movie[m].length_min], DOMAIN c.movie))

Hours(minutes) == [num |-> minutes, den |-> 60]

get_total_durations(c) ==
    [watched |-> [minutes |-> watched_minutes(c), hours |-> Hours(watched_minutes(c))],
     library |-> [minutes |-> library_minutes(c), hours |-> Hours(library_minutes(c))]]

\* The rows of the rating query: WHERE m.rating IS NOT NULL.
RatedRows(c) == {k \in Joined(c) : MovieOf(c, k).rating # None}

\* The rating query without its WHERE clause and with one bucket per movie.
diary_ratings_per_movie(c) ==
    LET seen == {c.diary[k].movie_id : k \in Joined(c)}
        ordered == OrderedBy(seen, [a, b \in seen |-> a < b])
    IN  [i \in DOMAIN ordered |->
            [rating |-> c.movie[ordered[i]].rating,
             rating_count |-> WatchCount(c, ordered[i])]]

\* get_diary_ratings: GROUP BY m.rating ORDER BY m.rating ASC, then the dict
\* filled in that order.  The result is the items of the dict, in order.
get_diary_ratings(c) ==
    LET values == {Val(MovieOf(c, k).rating) : k \in RatedRows(c)}
        ordered == OrderedBy(values, [a, b \in values |-> FracLess(Frac(a), Frac(b))])
    IN  [i \in DOMAIN ordered |->
            [rating |-> ordered[i],
             rating_count |->
                Cardinality({k \in RatedRows(c) : Val(MovieOf(c, k).rating) = ordered[i]})]]

\* SUBSTR(d.watched_date, 1, 7)
Month(date) == SubSeq(date, 1, IF Len(date) < 7 THEN Len(date) ELSE 7)

\* datetime.strptime(s, "%Y-%m"): four digits, a dash, a month written 01..12
\* or 1..9, and nothing else.  The value is the month; None stands for
\* ValueError.
strptime(s) ==
    IF /\ Len(s) \in {6, 7}
       /\ AllDigits(SubSeq(s, 1, 4))
       /\ DigitsValue(SubSeq(s, 1, 4)) >= 1
       /\ s[5] = "-"
       /\ AllDigits(SubSeq(s, 6, Len(s)))
       /\ DigitsValue(SubSeq(s, 6, Len(s))) \in 1..12
       /\ (Len(s) = 6 => s[6] # "0")
    THEN Some(DigitsValue(SubSeq(s, 6, Len(s))))
    ELSE None

\* strftime("%b")
MonthNames ==
    << "Jan", "Feb", "Mar", "Apr", "May", "Jun",
       "Jul", "Aug", "Sep", "Oct", "Nov", "Dec" >>

\* One row of the monthly query, for the group `month`.
MonthRow(c, month) ==
    LET group == {k \in Joined(c) : Month(c.diary[k].watched_date) = month}
    IN  [month |-> month,
         watches |-> Cardinality(group),
         rewatches |-> SqlSum([k \in group |-> Some(c.diary[k].rewatch)], group),
         minutes |-> SqlSum([k \in group |-> MovieOf(c, k).length_min], group),
         avg_rating |-> SqlAvg([k \in group |-> MovieOf(c, k).rating], group)]

\* stats[key] = value
Put(d, key, value) == [x \in DOMAIN d \cup {key} |-> IF x = key THEN value ELSE d[x]]

\* The loop of get_monthly_stats over the rows from position i on.
RECURSIVE MonthlyLoop(_, _, _)
MonthlyLoop(result, i, stats) ==
    IF i > Len(result) THEN [raised |-> FALSE, stats |-> stats]
    ELSE LET month_obj == strptime(result[i].month)
         IN  IF month_obj = None THEN [raised |-> TRUE, stats |-> stats]
             ELSE MonthlyLoop(result, i + 1,
                      Put(stats, MonthNames[Val(month_obj)],
                          [watches |-> result[i].watches,
                           rewatches |-> OrZero(result[i].rewatches),
                           minutes |-> OrZero(result[i].minutes),
                           hours |-> Hours(OrZero(result[i].minutes)),
                           avg_rating |-> result[i].avg_rating]))

\* get_monthly_stats: GROUP BY month ORDER BY month, then the loop.  raised
\* means the loop left with ValueError.
get_monthly_stats(c) ==
    LET months == {Month(c.diary[k].watched_date) : k \in Joined(c)}
        ordered == OrderedBy(months, [a, b \in months |-> TextLess(a, b)])
    IN  MonthlyLoop([i \in DOMAIN ordered |-> MonthRow(c, ordered[i])], 1, <<>>)

---------------------------------------------------------------------------
(* top5_analysis.py *)

\* COUNT(*), COUNT(DISTINCT d.movie_id) and AVG(m.rating) of one group.
\* A row of a group is a diary row or, where movie_cast is joined, a pair of
\* a diary row and a cast link; film[r] is the movie id of row r.
GroupStats(c, group, film) ==
    [watch_count |-> Cardinality(group),
     movie_count |-> Cardinality({film[r] : r \in group}),
     avg_rating |-> SqlAvg([r \in group |-> c.movie[film[r]].rating], group)]

\* ORDER BY watch_count ASC
ByWatchCountAscending(tie, a, b) ==
    \/ a.watch_count < b.watch_count
    \/ a.watch_count = b.watch_count /\ Earlier(tie, a.first, b.first)

\* ORDER BY watch_count DESC
ByWatchCount(tie, a, b) ==
    \/ a.watch_count > b.watch_count
    \/ a.watch_count = b.watch_count /\ Earlier(tie, a.first, b.first)

\* ORDER BY avg_rating DESC (every group here has an average)
ByAvgRating(tie, a, b) ==
    \/ FracLess(Val(b.avg_rating), Val(a.avg_rating))
    \/ FracEq(Val(a.avg_rating), Val(b.avg_rating)) /\ Earlier(tie, a.first, b.first)

\* ORDER BY watch_count DESC, avg_rating DESC
ByWatchCountThenRating(tie, a, b) ==
    \/ a.watch_count > b.watch_count
    \/ /\ a.watch_count = b.watch_count
       /\ \/ FracLess(Val(b.avg_rating), Val(a.avg_rating))
          \/ FracEq(Val(a.avg_rating), Val(b.avg_rating)) /\ Earlier(tie, a.first, b.first)

\* The groups of the director queries: one per director of the rows, with
\* the first movie of the group as its place among the groups.
DirectorGroups(c, rows_) ==
    { [name |-> Val(d),
       first |-> CHOOSE m \in DOMAIN c.movie :
                    /\ c.movie[m].director = d
                    /\ \A n \in DOMAIN c.movie : c.movie[n].director = d => m <= n]
        @@ GroupStats(c, {k \in rows_ : MovieOf(c, k).director = d},
                      [k \in rows_ |-> c.diary[k].movie_id])
      : d \in {MovieOf(c, k).director : k \in rows_} }

DirectorEntry(g) ==
    [director |-> g.name, watch_count |-> g.watch_count,
     movie_count |-> g.movie_count, avg_rating |-> g.avg_rating]

get_top_directors_most_watched(c, limit, tie) ==
    LET rows_ == {k \in Joined(c) : MovieOf(c, k).director # None}
        groups == DirectorGroups(c, rows_)
        ordered == OrderedBy(groups, [a, b \in groups |-> ByWatchCount(tie, a, b)])
    IN  Limit([i \in DOMAIN ordered |-> DirectorEntry(ordered[i])], limit)

\* HAVING COUNT(*) > 1
HavingWatches(groups) == {g \in groups : g.watch_count > 1}

\* HAVING COUNT(DISTINCT d.movie_id) > 1
Having(groups) == {g \in groups : g.movie_count > 1}

get_top_directors_highest_rated(c, limit, tie) ==
    LET rows_ == {k \in Joined(c) :
                    MovieOf(c, k).director # None /\ MovieOf(c, k).rating # None}
        groups == Having(DirectorGroups(c, rows_))
        ordered == OrderedBy(groups, [a, b \in groups |-> ByAvgRating(tie, a, b)])
    IN  Limit([i \in DOMAIN ordered |-> DirectorEntry(ordered[i])], limit)

\* JOIN movie_cast mc ON mc.movie_id = m.id JOIN person p ON p.id = mc.person_id
CastRows(c, rows_) ==
    {<<k, l>> \in rows_ \X c.movie_cast :
        l.movie_id = c.diary[k].movie_id /\ l.person_id \in DOMAIN c.person}

\* The groups of the actor queries: GROUP BY p.id.
ActorGroups(c, rows_) ==
    { [name |-> c.person[p], first |-> p]
        @@ GroupStats(c, {r \in CastRows(c, rows_) : r[2].person_id = p},
                      [r \in CastRows(c, rows_) |-> c.diary[r[1]].movie_id])
      : p \in {r[2].person_id : r \in CastRows(c, rows_)} }

ActorEntry(g) ==
    [actor |-> g.name, watch_count |-> g.watch_count,
     movie_count |-> g.movie_count, avg_rating |-> g.avg_rating]

get_top_actors_most_watched(c, limit, tie) ==
    LET groups == ActorGroups(c, Joined(c))
        ordered == OrderedBy(groups, [a, b \in groups |-> ByWatchCount(tie, a, b)])
    IN  Limit([i \in DOMAIN ordered |-> ActorEntry(ordered[i])], limit)

get_top_actors_highest_rated(c, limit, tie) ==
    LET groups == Having(ActorGroups(c, RatedRows(c)))
        ordered == OrderedBy(groups, [a, b \in groups |-> ByAvgRating(tie, a, b)])
    IN  Limit([i \in DOMAIN ordered |-> ActorEntry(ordered[i])], limit)

\* The query without the EXISTS condition.
AnyWatched(c, m) == TRUE

\* EXISTS (SELECT 1 FROM diary d2 WHERE d2.movie_id = d.movie_id AND d2.rewatch = 0)
FirstWatched(c, m) ==
    \E k \in DOMAIN c.diary : c.diary[k].movie_id = m /\ c.diary[k].rewatch = 0

\* The groups of the movie query: GROUP BY m.id.
MovieGroups(c, rows_) ==
    { [name |-> c.movie[m].title, first |-> m]
        @@ GroupStats(c, {k \in rows_ : c.diary[k].movie_id = m},
                      [k \in rows_ |-> c.diary[k].movie_id])
      : m \in {c.diary[k].movie_id : k \in rows_} }

get_top_movies(c, limit, tie) ==
    LET rows_ == {k \in RatedRows(c) : FirstWatched(c, c.diary[k].movie_id)}
        groups == MovieGroups(c, rows_)
        ordered == OrderedBy(groups, [a, b \in groups |-> ByWatchCountThenRating(tie, a, b)])
    IN  Limit([i \in DOMAIN ordered |->
                 [title |-> ordered[i].name, watch_count |-> ordered[i].watch_count,
                  avg_rating |-> ordered[i].avg_rating]], limit)

\* The limits the queries are run with: analyze() passes 5.
Limits == {1, 5}

\* analyze(): the five queries on one connection.
analyze(c, limit, tie) ==
    [kind |-> "top5", limit |-> limit,
     directors |-> [most_watched |-> get_top_directors_most_watched(c, limit, tie),
                    highest_rated |-> get_top_directors_highest_rated(c, limit, tie)],
     actors |-> [most_watched |-> get_top_actors_most_watched(c, limit, tie),
                 highest_rated |-> get_top_actors_highest_rated(c, limit, tie)],
     movies |-> [top_watched |-> get_top_movies(c, limit, tie)]]

\* general_analysis.py run as a program: the counts, the durations, the
\* rating distribution, the monthly stats.
general(c) ==
    [kind |-> "general",
     movie_count |-> get_movie_count(c),
     director_count |-> get_director_count(c),
     durations |-> get_total_durations(c),
     diary_ratings |-> get_diary_ratings(c),
     monthly_stats |-> get_monthly_stats(c)]

\* sqlite3.OperationalError: no such table
NoSuchTable == [kind |-> "no_table"]

---------------------------------------------------------------------------
(* State *)

\* No analysis has run.
NoReport == [kind |-> "none"]

Init ==
    /\ files = {}
    /\ db = EmptyDb
    /\ conn = EmptyDb
    /\ pc = "idle"
    /\ rows = <<>>
    /\ tmdb = NoAnswers
    /\ outcome = "none"
    /\ ops = 0
    /\ world = [pinned |-> FALSE, ratings |-> <<>>, first |-> None, commits |-> 0,
                wrapped |-> FALSE]
    /\ report = NoReport

\* A build() that removes the store itself before it connects.
SurvivingNothing == EmptyDb

\* What build() finds in data/movies.db after its removals.
Surviving == IF DB_PATH \in files /\ DB_PATH \notin BuildRemoves THEN db ELSE EmptyDb

\* The answers that bind the service afterwards: all of them while the
\* world is held fixed, otherwise only those of the latest row (the service
\* is free to answer anew).
Remembered(answers, latest) == IF world.pinned THEN answers ELSE latest

\* The rows the source may hold next.  The file is read as it is processed:
\* any row of the pool may follow, and the file may end anywhere.
NextRatings ==
    IF world.pinned
    THEN IF Len(rows) < Len(world.ratings) THEN {world.ratings[Len(rows) + 1]} ELSE {}
    ELSE IF Len(rows) < MaxRows THEN RatingsPool ELSE {}

RatingsAtEnd == world.pinned => Len(rows) = Len(world.ratings)

NextDiary ==
    IF Len(rows) < MaxRows
    THEN IF world.wrapped THEN DatedPool ELSE DiaryPool
    ELSE {}

\* An operation may start while the bound allows it and no analysis has
\* reported: the analyses only read, and a behaviour ends with one.
MayStart == ops < MaxOps /\ report = NoReport

\* build() up to the first row: remove the old files, connect, create the
\* tables (committed), BEGIN, open the source.
BuildStart ==
    /\ pc = "idle"
    /\ MayStart
    /\ files' = (files \ BuildRemoves) \cup {DB_PATH}
    /\ db' = create_tables(Surviving)
    /\ conn' = db'
    /\ rows' = <<>>
    /\ pc' = "build"
    /\ ops' = ops + 1
    /\ UNCHANGED <<tmdb, outcome, world, report>>

\* The service answers a search for title t with s.
Searched(t, s) ==
    /\ s \in SearchOutcomes
    /\ tmdb.search[t] \in {Unasked, s} \/ ~world.pinned

\* The service answers a details request for id t with k: "error" (the
\* request raises) or one of the responses.
Fetched(t, k) ==
    /\ k \in {"error"} \cup DetailsOf(t)
    /\ tmdb.details[t] \in {"unasked", k} \/ ~world.pinned

AnswerSearch(t, s) ==
    Remembered([tmdb EXCEPT !.search[t] = s], [NoAnswers EXCEPT !.search[t] = s])

AnswerBoth(t, s, k) ==
    Remembered([tmdb EXCEPT !.search[t] = s, !.details[s.id] = k],
               [NoAnswers EXCEPT !.search[t] = s, !.details[s.id] = k])

\* A row that fails the sanity checks: continue.
RowMalformed ==
    /\ pc = "build"
    /\ \E row \in NextRatings :
        /\ ~RowWellFormed(row)
        /\ rows' = Append(rows, row)
    /\ UNCHANGED <<files, db, conn, pc, tmdb, outcome, ops, world, report>>

\* The search without its try: a failed request leaves build().
RowSearchRaises ==
    /\ pc = "build"
    /\ \E row \in NextRatings, s \in SearchOutcomes :
        /\ RowWellFormed(row)
        /\ Searched(RowTitle(row), s)
        /\ s.kind \in {"error", "empty"}
        /\ tmdb' = AnswerSearch(RowTitle(row), s)
        /\ rows' = Append(rows, row)
    /\ db' = db
    /\ conn' = db
    /\ pc' = "idle"
    /\ outcome' = "build_raised"
    /\ UNCHANGED <<files, ops, world, report>>

\* The search raises or returns nothing: continue.
RowSearchFails ==
    /\ pc = "build"
    /\ \E row \in NextRatings, s \in SearchOutcomes :
        /\ RowWellFormed(row)
        /\ Searched(RowTitle(row), s)
        /\ s.kind \in {"error", "empty"}
        /\ tmdb' = AnswerSearch(RowTitle(row), s)
        /\ rows' = Append(rows, row)
    /\ UNCHANGED <<files, db, conn, pc, outcome, ops, world, report>>

\* The details request raises: continue.
RowDetailsFail ==
    /\ pc = "build"
    /\ \E row \in NextRatings, s \in SearchOutcomes :
        /\ RowWellFormed(row)
        /\ Searched(RowTitle(row), s)
        /\ s.kind = "found"
        /\ Fetched(s.id, "error")
        /\ tmdb' = AnswerBoth(RowTitle(row), s, "error")
        /\ rows' = Append(rows, row)
    /\ UNCHANGED <<files, db, conn, pc, outcome, ops, world, report>>

\* The row is resolved and written inside the transaction.
RowIngest ==
    /\ pc = "build"
    /\ \E row \in NextRatings, s \in SearchOutcomes, k \in DetailKeys :
        /\ RowWellFormed(row)
        /\ Searched(RowTitle(row), s)
        /\ s.kind = "found"
        /\ Fetched(s.id, k)
        /\ LET w == WriteRow(conn, row, s.id, Details(k))
           IN  w.ok /\ conn' = w.content
        /\ tmdb' = AnswerBoth(RowTitle(row), s, k)
        /\ rows' = Append(rows, row)
    /\ UNCHANGED <<files, db, pc, outcome, ops, world, report>>

\* except Exception: conn.commit(); raise
RollbackKeeps == conn

\* except Exception: conn.rollback(); raise
Rollback == db

\* A write of the row raises (the primary key of movie_cast, or the storage
\* itself): the transaction is rolled back and the error leaves build().
RowWriteFails ==
    /\ pc = "build"
    /\ \E row \in NextRatings, s \in SearchOutcomes, k \in DetailKeys, fault \in BOOLEAN :
        /\ RowWellFormed(row)
        /\ Searched(RowTitle(row), s)
        /\ s.kind = "found"
        /\ Fetched(s.id, k)
        /\ fault \/ ~WriteRow(conn, row, s.id, Details(k)).ok
        /\ tmdb' = Remembered([tmdb EXCEPT !.search[RowTitle(row)] = s,
                                            !.details[s.id] = k], NoAnswers)
    /\ rows' = <<>>
    /\ db' = Rollback
    /\ conn' = db'
    /\ pc' = "idle"
    /\ outcome' = "build_raised"
    /\ UNCHANGED <<files, ops, world, report>>

\* All rows done: conn.commit(), conn.close().
BuildCommit ==
    /\ pc = "build"
    /\ RatingsAtEnd
    /\ db' = conn
    /\ pc' = "idle"
    /\ outcome' = "built"
    /\ world' = IF world.pinned
                THEN [world EXCEPT !.first = IF @ = None THEN Some(conn.movie) ELSE @,
                                   !.commits = @ + 1]
                ELSE world
    /\ rows' = <<>>
    /\ tmdb' = Remembered(tmdb, NoAnswers)
    /\ UNCHANGED <<files, conn, ops, report>>

---------------------------------------------------------------------------
(* Option 2: diary() *)

\* A front end that calls diary() whatever the disk holds.
PreconditionSkipped == TRUE

\* Option 2 of the front end runs diary() only when this holds.
PreconditionOK == DB_PATH \in files

\* Option 2 without a database file: a message, diary() is not called.
DiaryRefused ==
    /\ pc = "idle"
    /\ MayStart
    /\ ~PreconditionOK
    /\ outcome' = "no_database"
    /\ rows' = <<>>
    /\ ops' = ops + 1
    /\ UNCHANGED <<files, db, conn, pc, tmdb, world, report>>

\* diary() up to the first row: connect (sqlite3 creates a missing file),
\* open the source.
DiaryStart ==
    /\ pc = "idle"
    /\ MayStart
    /\ PreconditionOK
    /\ files' = files \cup {DB_PATH}
    /\ conn' = db
    /\ rows' = <<>>
    /\ pc' = "diary"
    /\ ops' = ops + 1
    /\ UNCHANGED <<db, tmdb, outcome, world, report>>

\* Too few columns, a blank title or a blank watch date: continue.
DiaryRowMalformed ==
    /\ pc = "diary"
    /\ \E row \in NextDiary :
        /\ ~DiaryRowWellFormed(row)
        /\ rows' = Append(rows, row)
    /\ UNCHANGED <<files, db, conn, pc, tmdb, outcome, ops, world, report>>

\* No movie has the title: continue.
DiaryRowUnmatched ==
    /\ pc = "diary"
    /\ conn.schema
    /\ \E row \in NextDiary :
        /\ DiaryRowWellFormed(row)
        /\ select_movie_by_title(conn.movie, Strip(row[2])) = {}
        /\ rows' = Append(rows, row)
    /\ UNCHANGED <<files, db, conn, pc, tmdb, outcome, ops, world, report>>

\* INSERT OR REPLACE under a fixed id: the event takes the place of what the
\* table held.
DiaryRowOverwrites ==
    /\ pc = "diary"
    /\ conn.schema
    /\ \E row \in NextDiary :
        /\ DiaryRowWellFormed(row)
        /\ \E movie_id \in select_movie_by_title(conn.movie, Strip(row[2])) :
            conn' = [conn EXCEPT !.diary = <<WatchEvent(movie_id, row)>>]
        /\ rows' = Append(rows, row)
    /\ UNCHANGED <<files, db, pc, tmdb, outcome, ops, world, report>>

\* A movie has the title: one diary row is inserted for the row fetchone()
\* returns (SQL leaves open which, when several movies share the title).
DiaryRowInsert ==
    /\ pc = "diary"
    /\ conn.schema
    /\ \E row \in NextDiary :
        /\ DiaryRowWellFormed(row)
        /\ \E movie_id \in select_movie_by_title(conn.movie, Strip(row[2])) :
            conn' = [conn EXCEPT !.diary = Append(@, WatchEvent(movie_id, row))]
        /\ rows' = Append(rows, row)
    /\ UNCHANGED <<files, db, pc, tmdb, outcome, ops, world, report>>

\* A statement raises (no movie table, or the storage itself).  diary()
\* has no handler: the error leaves it before conn.commit(), and the
\* connection is dropped with its transaction still open.
DiaryRaises ==
    /\ pc = "diary"
    /\ \E row \in NextDiary, fault \in BOOLEAN :
        /\ DiaryRowWellFormed(row)
        /\ fault \/ ~conn.schema
    /\ rows' = <<>>
    /\ conn' = db
    /\ pc' = "idle"
    /\ outcome' = "diary_raised"
    /\ UNCHANGED <<files, db, tmdb, ops, world, report>>

\* All rows done: conn.commit(), conn.close().
DiaryCommit ==
    /\ pc = "diary"
    /\ db' = conn
    /\ pc' = "idle"
    /\ outcome' = "merged"
    /\ rows' = <<>>
    /\ UNCHANGED <<files, conn, tmdb, ops, world, report>>

---------------------------------------------------------------------------
(* The analyses: each opens its own connection to data/movies.db (sqlite3  *)
(* creates a missing file) and reads what is committed.                    *)

GeneralAnalysis ==
    /\ pc = "idle"
    /\ report = NoReport
    /\ files' = files \cup {DB_PATH}
    /\ report' = IF db.schema THEN general(db) ELSE NoSuchTable
    /\ UNCHANGED <<db, conn, pc, rows, tmdb, outcome, ops, world>>

Top5Analysis ==
    /\ pc = "idle"
    /\ report = NoReport
    /\ files' = files \cup {DB_PATH}
    /\ \E limit \in Limits, tie \in TieOrders :
        report' = IF db.schema THEN analyze(db, limit, tie) ELSE NoSuchTable
    /\ UNCHANGED <<db, conn, pc, rows, tmdb, outcome, ops, world>>

---------------------------------------------------------------------------
(* Specifications *)

Build ==
    \/ BuildStart
    \/ RowMalformed
    \/ RowSearchFails
    \/ RowDetailsFail
    \/ RowIngest
    \/ RowWriteFails
    \/ BuildCommit

Diary ==
    \/ DiaryRefused
    \/ DiaryStart
    \/ DiaryRowMalformed
    \/ DiaryRowUnmatched
    \/ DiaryRowInsert
    \/ DiaryRaises
    \/ DiaryCommit

Next == Build \/ Diary

\* Any sequence of the two operations, any sources, any answers.
Spec == Init /\ [][Next]_vars

\* Build run again and again over one ratings source, the service giving
\* the same answers every time.
InitRebuild ==
    /\ files = {}
    /\ db = EmptyDb
    /\ conn = EmptyDb
    /\ pc = "idle"
    /\ rows = <<>>
    /\ tmdb = NoAnswers
    /\ outcome = "none"
    /\ ops = 0
    /\ \E src \in RatingsSources \cup {ExampleSource} :
        world = [pinned |-> TRUE, ratings |-> src, first |-> None, commits |-> 0,
                 wrapped |-> FALSE]
    /\ report = NoReport

SpecRebuild == InitRebuild /\ [][Build]_vars

\* The ratings the analyses are run on: A rated 4.5, a short row, B rated 3.
WrappedSource ==
    << RatingsRow(<<"A">>, <<"4", ".", "5">>),
       << <<>>, <<"A">>, <<>>, <<"4">> >>,
       RatingsRow(<<" ", "B", " ">>, <<"3">>) >>

InitWrapped ==
    /\ files = {}
    /\ db = EmptyDb
    /\ conn = EmptyDb
    /\ pc = "idle"
    /\ rows = <<>>
    /\ tmdb = NoAnswers
    /\ outcome = "none"
    /\ ops = 0
    /\ world = [pinned |-> TRUE, ratings |-> WrappedSource, first |-> None,
                commits |-> 0, wrapped |-> TRUE]
    /\ report = NoReport

InitRecast ==
    /\ files = {}
    /\ db = EmptyDb
    /\ conn = EmptyDb
    /\ pc = "idle"
    /\ rows = <<>>
    /\ tmdb = NoAnswers
    /\ outcome = "none"
    /\ ops = 0
    /\ world = [pinned |-> FALSE, ratings |-> <<>>, first |-> None, commits |-> 0,
                wrapped |-> TRUE]
    /\ report = NoReport

\* Builds one after the other over any sources, against a service that is
\* free to answer anew and whose two films both have a cast.
SpecRecast == InitRecast /\ [][Build]_vars

Analysis == GeneralAnalysis \/ Top5Analysis

\* The two operations on the ratings and the diary of the example, then an
\* analysis of what they stored.
SpecWrapped == InitWrapped /\ [][Build \/ Diary \/ Analysis]_vars

---------------------------------------------------------------------------
(* Vocabulary of the properties *)

Last(q) == q[Len(q)]

\* A step of build() that has processed one more row and goes on.
BuildRowStep == pc = "build" /\ pc' = "build" /\ rows' # rows /\ rows' # <<>>

\* The step on which build() commits.
BuildCommitStep == pc = "build" /\ pc' = "idle" /\ outcome' = "built"

\* The step on which diary() commits.
DiaryCommitStep == pc = "diary" /\ pc' = "idle" /\ outcome' = "merged"

\* A ratings row with fewer than the required fields, an empty title, or a
\* rating that is no number.
BadRatingsRow(row) ==
    \/ Len(row) < 5
    \/ Strip(row[2]) = <<>>
    \/ ParseFloat(Strip(row[5])) = None

\* Under `answers`, the lookup of this good row fails.
LookupFailed(answers, row) ==
    LET s == answers.search[Strip(row[2])]
    IN  \/ s.kind \in {"error", "empty"}
        \/ s.kind = "found" /\ answers.details[s.id] = "error"

\* Under `answers`, this good row resolves to a movie and its credits.
Resolved(answers, row) ==
    LET s == answers.search[Strip(row[2])]
    IN  s.kind = "found" /\ answers.details[s.id] \in DetailKeys

CastLinksOf(c, movie_id) == {l \in c.movie_cast : l.movie_id = movie_id}

Min(a, b) == IF a < b THEN a ELSE b

---------------------------------------------------------------------------
(* C1: Build run again over the same ratings source, with the same answers  *)
(* of the metadata service, commits exactly the movie rows the first        *)
(* committed run left: same ids, same fields, no row twice.                 *)

C1_RebuildIdempotent ==
    (pc = "idle" /\ outcome = "built" /\ world.first # None)
        => db.movie = Val(world.first)

C1_Witness ==
    /\ pc = "idle"
    /\ outcome = "built"
    /\ world.commits >= 2
    /\ Len(db.movie) = 2

(* C2: in the committed store and inside every transaction, no two movie    *)
(* rows hold the same external id (process_csv never writes a row without   *)
(* one).                                                                    *)

UniqueTmdb(c) ==
    \A i, j \in DOMAIN c.movie :
        i # j => c.movie[i].tmdb_id # c.movie[j].tmdb_id

C2_UniqueExternalId == UniqueTmdb(db) /\ UniqueTmdb(conn)

\* A second source title resolved to the id of a committed movie and was
\* merged into its row.
C2_Witness ==
    /\ pc = "build"
    /\ Len(db.movie) = 1
    /\ Len(conn.movie) = 1
    /\ db.movie[1].title = T_A
    /\ conn.movie[1].title = T_B
    /\ conn.movie[1].tmdb_id = db.movie[1].tmdb_id

(* C3: every movie has at most 10 cast links, numbered 1..N without gaps,   *)
(* and right after a row is ingested the links of its movie are the first   *)
(* N = min(10, number of named cast entries) names, in order.               *)

DenseCast(c) ==
    \A m \in DOMAIN c.movie :
        /\ Cardinality(CastLinksOf(c, m)) <= 10
        /\ {l.billing_order : l \in CastLinksOf(c, m)} = 1..Cardinality(CastLinksOf(c, m))

JustIngested ==
    /\ pc = "build"
    /\ rows # <<>>
    /\ ~BadRatingsRow(Last(rows))
    /\ Resolved(tmdb, Last(rows))

IngestedNames ==
    CastNames(Details(tmdb.details[tmdb.search[Strip(Last(rows)[2])].id]).cast)

IngestedMovie == MovieIdOfTmdb(conn.movie, tmdb.search[Strip(Last(rows)[2])].id)

C3_CastLinks ==
    /\ DenseCast(db)
    /\ DenseCast(conn)
    /\ JustIngested =>
        LET N == Min(10, Len(IngestedNames))
            links == CastLinksOf(conn, IngestedMovie)
        IN  /\ Cardinality(links) = N
            /\ {l.billing_order : l \in links} = 1..N
            /\ \A l \in links : conn.person[l.person_id] = IngestedNames[l.billing_order]

\* A cast of more than ten names was ingested.
C3_Witness ==
    /\ JustIngested
    /\ Len(IngestedNames) > 10
    /\ Cardinality(CastLinksOf(conn, IngestedMovie)) = 10

(* C4: when Build commits, nothing persisted before it is left: there is no *)
(* diary row, and every movie carries the title of a row of this run.       *)

C4_BuildWipes ==
    [][BuildCommitStep =>
         /\ db'.diary = <<>>
         /\ \A i \in DOMAIN db'.movie :
              \E k \in DOMAIN rows :
                  ~BadRatingsRow(rows[k]) /\ Strip(rows[k][2]) = db'.movie[i].title]_vars

(* C5: when a write fails during Build, the error leaves build() and the    *)
(* store is what it was before the run's first row: nothing written for the *)
(* earlier rows of the run remains.                                         *)

C5_RollbackOnFailure ==
    [][(pc = "build" /\ pc' = "idle" /\ outcome' # "built")
          => (outcome' = "build_raised" /\ db' = db /\ conn' = db)]_vars

\* First run over <<A, B>>: A was resolved and written, then the cast of B
\* repeated a name; nothing of A is in the store.
C5_Witness ==
    /\ ops = 1
    /\ pc = "idle"
    /\ outcome = "build_raised"
    /\ Len(world.ratings) = 2
    /\ tmdb.search[T_A] = [kind |-> "found", id |-> 1]
    /\ tmdb.details[1] = "full"
    /\ tmdb.search[T_B] = [kind |-> "found", id |-> 2]
    /\ tmdb.details[2] = "dup"
    /\ db.movie = <<>>
    /\ db.person = <<>>
    /\ db.movie_cast = {}

(* C6: a bad ratings row changes nothing and does not end Build, and a run  *)
(* that commits holds exactly the movies its good, resolved rows name.      *)

ResolvedIds ==
    {tmdb.search[Strip(world.ratings[k][2])].id :
        k \in {j \in DOMAIN world.ratings :
                 ~BadRatingsRow(world.ratings[j]) /\ Resolved(tmdb, world.ratings[j])}}

C6_BadRowsSkipped ==
    /\ []((pc = "idle" /\ outcome = "built")
            => {db.movie[i].tmdb_id : i \in DOMAIN db.movie} = ResolvedIds)
    /\ [][(BuildRowStep /\ BadRatingsRow(Last(rows')))
            => conn' = conn]_vars
    /\ [][(pc = "build" /\ rows' # rows /\ rows' # <<>> /\ BadRatingsRow(Last(rows')))
            => pc' = "build"]_vars

\* The example: a good row, a short row, a rating that is no number.
C6_Witness ==
    /\ pc = "idle"
    /\ outcome = "built"
    /\ world.ratings = ExampleSource
    /\ Len(db.movie) = 1
    /\ db.movie[1].title = T_A

(* C7: a row whose search finds nothing, or whose search or details request *)
(* fails, leaves no trace in the store, and Build goes on with the next row *)

C7_LookupFailureSkips ==
    [][(pc = "build" /\ rows' # rows /\ rows' # <<>>
          /\ ~BadRatingsRow(Last(rows')) /\ LookupFailed(tmdb', Last(rows')))
          => (conn' = conn /\ db' = db /\ pc' = "build")]_vars

\* The second row's lookup failed; what the first row wrote is still there.
C7_Witness ==
    /\ pc = "build"
    /\ Len(rows) = 2
    /\ ~BadRatingsRow(Last(rows))
    /\ LookupFailed(tmdb, Last(rows))
    /\ Len(conn.movie) = Len(db.movie) + 1

(* C8: every diary row references a movie that exists.                      *)

Referential(c) == \A k \in DOMAIN c.diary : c.diary[k].movie_id \in DOMAIN c.movie

TitleMatches(title) == \E i \in DOMAIN db.movie : db.movie[i].title = title

C9_Original ==
    [][DiaryCommitStep =>
         Len(db'.diary) - Len(db.diary)
            = Cardinality({k \in DOMAIN rows :
                             Len(rows[k]) >= 2 /\ TitleMatches(rows[k][2])})]_vars

(* C9 amended: the events added are as many as the diary rows that have at  *)
(* least 8 fields, a watch date that is not blank, and a title that, with   *)
(* its surrounding whitespace removed, equals a movie's title.              *)

C9_MatchedRowsCounted ==
    [][DiaryCommitStep =>
         Len(db'.diary) - Len(db.diary)
            = Cardinality({k \in DOMAIN rows :
                             /\ Len(rows[k]) >= 8
                             /\ Strip(rows[k][8]) # <<>>
                             /\ TitleMatches(Strip(rows[k][2]))})]_vars

\* A merge over two complete rows: the title of the first is a movie's, the
\* title of the second differs from it in case only.  One event was added.
C9_Witness ==
    /\ pc = "diary"
    /\ Len(rows) = 2
    /\ \A k \in 1..2 : Len(rows[k]) >= 8 /\ Strip(rows[k][8]) # <<>>
    /\ rows[1][2] = <<"A">>
    /\ rows[2][2] = <<"a">>
    /\ TitleMatches(<<"A">>)
    /\ ~TitleMatches(<<"a">>)
    /\ Len(conn.diary) = Len(db.diary) + 1

(* C10: Diary-merge without a database file is refused with the message     *)
(* that the database does not exist; nothing is created.                    *)

C10_DiaryNeedsStore ==
    [][(pc = "idle" /\ DB_PATH \notin files /\ ops' # ops /\ pc' # "build")
          => (outcome' = "no_database" /\ pc' = "idle" /\ files' = files
              /\ db' = db /\ db'.diary = <<>>)]_vars

C10_Witness ==
    /\ outcome = "no_database"
    /\ DB_PATH \notin files
    /\ db = EmptyDb

(* C11: when Diary-merge fails at some row, the events inserted for the     *)
(* rows before it are in the store afterwards.                              *)

C11_PriorEventsKept ==
    [][(pc = "diary" /\ pc' = "idle" /\ outcome' = "diary_raised")
          => db'.diary = conn.diary]_vars

(* C13: a committed watch event is never changed or removed.  Whatever the  *)
(* operation, the committed diary table after a step starts with the table  *)
(* before it, and inside a Diary-merge every insert extends the table.      *)

IsPrefix(p, q) == Len(p) <= Len(q) /\ SubSeq(q, 1, Len(p)) = p

DaysIn(year, month) ==
    IF month \in {4, 6, 9, 11} THEN 30
    ELSE IF month # 2 THEN 31
    ELSE IF year % 4 = 0 /\ (year % 100 # 0 \/ year % 400 = 0) THEN 29 ELSE 28

\* A date written YYYY-MM-DD.
IsDate(s) ==
    /\ Len(s) = 10
    /\ s[5] = "-" /\ s[8] = "-"
    /\ AllDigits(SubSeq(s, 1, 4)) /\ AllDigits(SubSeq(s, 6, 7)) /\ AllDigits(SubSeq(s, 9, 10))
    /\ DigitsValue(SubSeq(s, 6, 7)) \in 1..12
    /\ DigitsValue(SubSeq(s, 9, 10))
         \in 1..DaysIn(DigitsValue(SubSeq(s, 1, 4)), DigitsValue(SubSeq(s, 6, 7)))

UnparsableDate(row) ==
    Len(row) >= 8 /\ Strip(row[8]) # <<>> /\ ~IsDate(Strip(row[8]))

C12_UnparsableDateSkipped ==
    [][(pc = "diary" /\ rows' # rows /\ rows' # <<>> /\ UnparsableDate(Last(rows')))
          => (pc' = "diary" /\ conn' = conn)]_vars

(* C15: in the rating distribution, the counts of the buckets add up to the *)
(* number of watch events whose movie has a rating, every bucket counts     *)
(* the events of the movies with its rating, and the buckets come in        *)
(* strictly ascending order of rating.                                      *)

RECURSIVE SumCounts(_)
SumCounts(buckets) ==
    IF buckets = <<>> THEN 0
    ELSE Head(buckets).rating_count + SumCounts(Tail(buckets))

\* The watch events whose movie has a rating.
RatedEvents ==
    {k \in DOMAIN db.diary :
        /\ db.diary[k].movie_id \in DOMAIN db.movie
        /\ db.movie[db.diary[k].movie_id].rating # None}

RatingBelow(a, b) == a[1] * Pow10(b[2]) < b[1] * Pow10(a[2])

C15_RatingDistribution ==
    report.kind = "general" =>
        LET buckets == report.diary_ratings
        IN  /\ SumCounts(buckets) = Cardinality(RatedEvents)
            /\ \A i \in DOMAIN buckets :
                 buckets[i].rating_count =
                    Cardinality({k \in RatedEvents :
                        db.movie[db.diary[k].movie_id].rating = Some(buckets[i].rating)})
            /\ \A i, j \in DOMAIN buckets :
                 i < j => RatingBelow(buckets[i].rating, buckets[j].rating)

\* Three events, one of movie A (rated 4.5, entered first) and two of movie
\* B (rated 3): the bucket of 3 comes first and counts two.
C15_Witness ==
    /\ report.kind = "general"
    /\ Len(db.diary) = 3
    /\ Len(db.movie) = 2
    /\ db.movie[1].title = T_A
    /\ report.diary_ratings =
          << [rating |-> <<3, 0>>, rating_count |-> 2],
             [rating |-> <<45, 1>>, rating_count |-> 1] >>

(* C16: in the monthly stats, two watch events are counted in the same      *)
(* bucket exactly when the first 7 characters of their watch dates are      *)
(* equal, and the bucket of an event counts the events that share its       *)
(* first 7 characters.                                                      *)

YearMonth(k) ==
    SubSeq(db.diary[k].watched_date, 1,
           IF Len(db.diary[k].watched_date) < 7 THEN Len(db.diary[k].watched_date) ELSE 7)

\* The key of the result under which event k is filed: the name of the
\* month its date names.
BucketOf(k) == MonthNames[DigitsValue(SubSeq(db.diary[k].watched_date, 6, 7))]

C16_MonthlyBuckets ==
    (report.kind = "general" /\ ~report.monthly_stats.raised) =>
        LET stats == report.monthly_stats.stats
        IN  /\ \A k \in DOMAIN db.diary :
                 /\ BucketOf(k) \in DOMAIN stats
                 /\ stats[BucketOf(k)].watches =
                      Cardinality({j \in DOMAIN db.diary : YearMonth(j) = YearMonth(k)})
            /\ \A j, k \in DOMAIN db.diary :
                 (BucketOf(j) = BucketOf(k)) <=> (YearMonth(j) = YearMonth(k))

(* C17: every director and every actor the highest-rated queries return     *)
(* has more than one distinct watched movie; a group with a single watched  *)
(* movie is never returned, whatever that movie's rating.                   *)

Watched(m) == \E k \in DOMAIN db.diary : db.diary[k].movie_id = m

WatchedMoviesOfDirector(name) ==
    {m \in DOMAIN db.movie : db.movie[m].director = Some(name) /\ Watched(m)}

WatchedMoviesOfActor(name) ==
    {m \in DOMAIN db.movie :
        /\ Watched(m)
        /\ \E l \in db.movie_cast : l.movie_id = m /\ db.person[l.person_id] = name}

C17_HighestRatedNeedTwoMovies ==
    report.kind = "top5" =>
        /\ \A i \in DOMAIN report.directors.highest_rated :
             Cardinality(WatchedMoviesOfDirector(report.directors.highest_rated[i].director)) > 1
        /\ \A i \in DOMAIN report.actors.highest_rated :
             Cardinality(WatchedMoviesOfActor(report.actors.highest_rated[i].actor)) > 1

\* Actor a was watched in two movies and is returned; actor b was watched
\* in one movie only, the one with the highest rating, and is left out.
C17_Witness ==
    /\ report.kind = "top5"
    /\ report.limit = 5
    /\ Len(report.actors.highest_rated) = 1
    /\ report.actors.highest_rated[1].actor = "a"
    /\ Len(report.directors.highest_rated) = 1
    /\ WatchedMoviesOfActor("b") = {1}
    /\ \A m \in DOMAIN db.movie :
         ~RatingBelow(Val(db.movie[1].rating), Val(db.movie[m].rating))
    /\ Len(db.movie) = 2

(* C18: the movie query returns at most K movies; each has a rating and a   *)
(* watch event that is no rewatch, and is listed with the number of all its *)
(* watch events; the list is in descending order of that number and, among  *)
(* equal numbers, of rating.                                                *)

AvgBelow(x, y) == x.num * y.den < y.num * x.den

C18_TopMovies ==
    report.kind = "top5" =>
        LET top == report.movies.top_watched
        IN  /\ Len(top) <= report.limit
            /\ \A i \in DOMAIN top :
                 \E m \in DOMAIN db.movie :
                    /\ db.movie[m].title = top[i].title
                    /\ db.movie[m].rating # None
                    /\ \E k \in DOMAIN db.diary :
                          db.diary[k].movie_id = m /\ db.diary[k].rewatch = 0
                    /\ top[i].watch_count =
                          Cardinality({k \in DOMAIN db.diary : db.diary[k].movie_id = m})
            /\ \A i, j \in DOMAIN top :
                 i < j =>
                    \/ top[i].watch_count > top[j].watch_count
                    \/ /\ top[i].watch_count = top[j].watch_count
                       /\ ~AvgBelow(Val(top[i].avg_rating), Val(top[j].avg_rating))

\* Movie A is known through a rewatch only and is left out, although its
\* rating is the higher one; movie B was watched twice and is returned.
C18_Witness ==
    /\ report.kind = "top5"
    /\ Len(db.movie) = 2
    /\ db.movie[1].title = T_A
    /\ Len(db.diary) = 3
    /\ \E k \in DOMAIN db.diary : db.diary[k].movie_id = 1
    /\ \A k \in DOMAIN db.diary : db.diary[k].movie_id = 1 => db.diary[k].rewatch = 1
    /\ Len(report.movies.top_watched) = 1
    /\ report.movies.top_watched[1].title = T_B
    /\ report.movies.top_watched[1].watch_count = 2

(* C19: the most-watched queries return at most K directors and at most K   *)
(* actors, each with the number of its watch events, in non-increasing      *)
(* order of that number, and no director or actor left out has more watch   *)
(* events than one that is returned.                                        *)

DirectorWatches(name) ==
    Cardinality({k \in DOMAIN db.diary :
        /\ db.diary[k].movie_id \in DOMAIN db.movie
        /\ db.movie[db.diary[k].movie_id].director = Some(name)})

ActorWatches(name) ==
    Cardinality({k \in DOMAIN db.diary :
        \E l \in db.movie_cast :
            l.movie_id = db.diary[k].movie_id /\ db.person[l.person_id] = name})

Directors == {Val(db.movie[m].director) : m \in {n \in DOMAIN db.movie : db.movie[n].director # None}}

Actors == {db.person[p] : p \in DOMAIN db.person}

C19_MostWatched ==
    report.kind = "top5" =>
        LET directors == report.directors.most_watched
            actors == report.actors.most_watched
        IN  /\ Len(directors) <= report.limit
            /\ Len(actors) <= report.limit
            /\ \A i \in DOMAIN directors :
                 directors[i].watch_count = DirectorWatches(directors[i].director)
            /\ \A i \in DOMAIN actors :
                 actors[i].watch_count = ActorWatches(actors[i].actor)
            /\ \A i, j \in DOMAIN directors :
                 i < j => directors[i].watch_count >= directors[j].watch_count
            /\ \A i, j \in DOMAIN actors :
                 i < j => actors[i].watch_count >= actors[j].watch_count
            /\ \A d \in Directors :
                 (\A i \in DOMAIN directors : directors[i].director # d)
                    => \A i \in DOMAIN directors : DirectorWatches(d) <= directors[i].watch_count
            /\ \A a \in Actors :
                 (\A i \in DOMAIN actors : actors[i].actor # a)
                    => \A i \in DOMAIN actors : ActorWatches(a) <= actors[i].watch_count

\* Eleven actors were watched, one of them twice and ten once: five are
\* returned, the one watched twice first.
C19_Witness ==
    /\ report.kind = "top5"
    /\ report.limit = 5
    /\ Cardinality({a \in Actors : ActorWatches(a) > 0}) = 11
    /\ Len(report.actors.most_watched) = 5
    /\ report.actors.most_watched[1].watch_count = 2
    /\ report.actors.most_watched[5].watch_count = 1

(* C20: watched minutes are the runtimes of the movies of all watch events  *)
(* added up, a movie watched n times counting n times; library minutes are  *)
(* the runtimes of all movies added up, each once; a movie without runtime  *)
(* adds nothing, and both are zero when there is nothing to add.            *)

Runtime(m) ==
    IF m \in DOMAIN db.movie /\ db.movie[m].length_min # None
    THEN Val(db.movie[m].length_min)
    ELSE 0

RECURSIVE EventMinutes(_)
EventMinutes(n) ==
    IF n = 0 THEN 0 ELSE Runtime(db.diary[n].movie_id) + EventMinutes(n - 1)

RECURSIVE MovieMinutes(_)
MovieMinutes(n) ==
    IF n = 0 THEN 0 ELSE Runtime(n) + MovieMinutes(n - 1)

C20_Durations ==
    report.kind = "general" =>
        /\ report.durations.watched.minutes = EventMinutes(Len(db.diary))
        /\ report.durations.library.minutes = MovieMinutes(Len(db.movie))
        /\ db.diary = <<>> => report.durations.watched.minutes = 0
        /\ db.movie = <<>> => report.durations.library.minutes = 0

\* Movie A (136 minutes) was watched twice and movie B (no runtime) once.
C20_Witness ==
    /\ report.kind = "general"
    /\ Len(db.movie) = 2
    /\ db.movie[1].length_min = Some(136)
    /\ db.movie[2].length_min = None
    /\ Len(db.diary) = 3
    /\ report.durations.watched.minutes = 272
    /\ report.durations.library.minutes = 136

(* C21: when a ratings row resolves to an external id that already has a    *)
(* movie, the row of that movie keeps its id and afterwards holds the       *)
(* title of the source row, the director, year and runtime of the details   *)
(* just fetched and the rating of the source row; no row is added, and no   *)
(* other movie changes.  The title is never the service's.                  *)

\* The answers the service gave for the row just processed.
AnsweredId == tmdb'.search[Strip(Last(rows')[2])].id
AnsweredDetails == Details(tmdb'.details[AnsweredId])

FirstDirector(crew) ==
    IF \A k \in DOMAIN crew : crew[k].job # "Director" THEN None
    ELSE crew[CHOOSE k \in DOMAIN crew :
                /\ crew[k].job = "Director"
                /\ \A j \in 1..(k - 1) : crew[j].job # "Director"].name

ReleaseYear(release_date) ==
    IF release_date = None \/ Len(Val(release_date)) < 4 THEN None
    ELSE ParseInt(SubSeq(Val(release_date), 1, 4))

RECURSIVE NonEmptyNames(_)
NonEmptyNames(cast) ==
    IF cast = <<>> THEN <<>>
    ELSE IF Head(cast) = None \/ Head(cast) = Some("")
         THEN NonEmptyNames(Tail(cast))
         ELSE <<Head(cast)[1]>> \o NonEmptyNames(Tail(cast))

FirstTen(names) == [k \in 1..(IF Len(names) < 10 THEN Len(names) ELSE 10) |-> names[k]]

\* The links of a movie as (billing order, name) pairs.
NamedLinksOf(c, movie_id) ==
    {<<l.billing_order, c.person[l.person_id]>> : l \in CastLinksOf(c, movie_id)}

C22_CastReplaced ==
    [][(BuildRowStep /\ ~BadRatingsRow(Last(rows')) /\ Resolved(tmdb', Last(rows')))
          => \A i \in DOMAIN conn.movie :
                IF conn.movie[i].tmdb_id = AnsweredId
                THEN LET names == FirstTen(NonEmptyNames(AnsweredDetails.cast))
                     IN  /\ NamedLinksOf(conn', i) = {<<k, names[k]>> : k \in DOMAIN names}
                         /\ Cardinality(CastLinksOf(conn', i)) = Len(names)
                ELSE CastLinksOf(conn', i) = CastLinksOf(conn, i)]_vars

\* The first row of a build replaced the two committed links of a movie by
\* ten others, none of them to a person of the two, while another movie
\* kept its link.
C22_Witness ==
    /\ JustIngested
    /\ Len(rows) = 1
    /\ IngestedMovie \in DOMAIN db.movie
    /\ Cardinality(CastLinksOf(db, IngestedMovie)) = 2
    /\ Cardinality(CastLinksOf(conn, IngestedMovie)) = 10
    /\ \A l \in CastLinksOf(db, IngestedMovie) :
          \A n \in CastLinksOf(conn, IngestedMovie) : n.person_id # l.person_id
    /\ \E j \in DOMAIN conn.movie :
          /\ j # IngestedMovie
          /\ CastLinksOf(conn, j) # {}
          /\ CastLinksOf(conn, j) = CastLinksOf(db, j)

(* C23: whenever the monthly statistics are returned, the 'watches' of      *)
(* their buckets add up to the number of watch events in the store: every   *)
(* event is counted once, also when events fall in the same month of        *)
(* different years.                                                         *)

RECURSIVE SumWatches(_, _)
SumWatches(stats, keys) ==
    IF keys = {} THEN 0
    ELSE LET k == CHOOSE x \in keys : TRUE
         IN  stats[k].watches + SumWatches(stats, keys \ {k})

C23_MonthlyWatchesAddUp ==
    (report.kind = "general" /\ ~report.monthly_stats.raised) =>
        SumWatches(report.monthly_stats.stats, DOMAIN report.monthly_stats.stats)
            = Len(db.diary)

====
